---- MODULE Spec2Model ----
(***************************************************************************)
(* QlessSolver (src/main.py): candidate filtering, the explicit-stack      *)
(* exact search, the pair fallback and the connectivity filter.            *)
(*                                                                         *)
(* A word and a roll are sequences of letters.  A Counter is a function    *)
(* from Letters to counts; a letter that is not a key has count 0, as a    *)
(* read of a missing key of a Python Counter gives.                        *)
(***************************************************************************)
EXTENDS Integers, Sequences, FiniteSets, TLC

\* ---------------------------------------------------------------- bounds
MaxDictSize == 2
MaxRollLen == 3
MaxSolutionsArg == 2
MaxCalls == 2

\* inputs of a direct _filter_valid_solutions call
MaxCovers == 2
MaxCoverLen == 3
MaxCountArg == 2

\* ------------------------------------------------------ program constants
\* max_count passed at src/main.py:185
FilterMaxCount == 20

Letters == {"a", "b"}

SeqsUpTo(S, n) == UNION {[1..k -> S] : k \in 0..n}

\* the words a dictionary may hold, the rolls a query may pass
Words == {<<"a">>, <<"b">>, <<"a", "a">>, <<"a", "b">>, <<"b", "a">>}
Rolls == SeqsUpTo(Letters, MaxRollLen) \ {<<>>}

\* the timeout a query may pass (seconds)
Timeouts == {1}

\* the readings of time.time() - start_time: before the timeout, or at it;
\* time.time() is the wall clock, which may be set back between two reads
ClockValues == {0, 1}

\* ------------------------------------------------------ letter multisets
Range(s) == {s[i] : i \in DOMAIN s}

\* set(word) / Counter(word).keys()
Keys(w) == Range(w)

Count(c, w) == Cardinality({i \in DOMAIN w : w[i] = c})

\* Counter(word)
Counter(w) == [c \in Letters |-> Count(c, w)]

\* the keys of Counter(s) in insertion order: first occurrences in s
RECURSIVE KeyOrder(_)
KeyOrder(s) ==
    IF s = <<>> THEN <<>>
    ELSE LET front == KeyOrder(SubSeq(s, 1, Len(s) - 1))
             last == s[Len(s)]
         IN IF last \in Range(front) THEN front ELSE Append(front, last)

Repeat(c, n) == [i \in 1..n |-> c]

\* ''.join(counter.elements()): each key, in key order, as often as its
\* count; keys whose count is not positive give nothing
RECURSIVE Elements(_, _)
Elements(ctr, keys) ==
    IF keys = <<>> THEN <<>>
    ELSE (IF ctr[Head(keys)] > 0 THEN Repeat(Head(keys), ctr[Head(keys)]) ELSE <<>>)
         \o Elements(ctr, Tail(keys))

\* remaining_counter[letter] -= count, for every letter of the word
Subtract(ctr, wctr) == [c \in Letters |-> ctr[c] - wctr[c]]

\* Counter + Counter
CounterAdd(x, y) == [c \in Letters |-> x[c] + y[c]]

\* Counter | Counter
CounterUnion(x, y) == [c \in Letters |-> IF x[c] >= y[c] THEN x[c] ELSE y[c]]

RECURSIVE SumOver(_, _)
SumOver(ctr, S) ==
    IF S = {} THEN 0
    ELSE LET c == CHOOSE x \in S : TRUE IN ctr[c] + SumOver(ctr, S \ {c})

\* sum(counter.values())
Total(ctr) == SumOver(ctr, Letters)

\* -------------------------------------------------------------- the state
VARIABLES
    word_list,          \* self.word_list: the set of words
    word_counter_map,   \* self.word_counter_map: (word, Counter) in dict order
    pc,                 \* position of the running query
    letters,            \* argument of find_all_solutions
    max_solutions,      \* argument of find_all_solutions
    timeout,            \* argument of find_all_solutions
    valid_words,        \* local of find_all_solutions
    stack,              \* local: the explicit stack of frames
    all_solutions,      \* local: the raw covers
    fb_i,               \* fallback: index of word1 in valid_words
    max_count,          \* argument of the last _filter_valid_solutions call
    result,             \* the value the last call returned
    elapsed,            \* the last reading of time.time() - start_time
    timed_out,          \* a reading of this call was >= timeout
    n_exact,            \* raw covers the stack search recorded in this call
    fb_entered,         \* the fallback block was entered in this call
    calls,              \* find_all_solutions calls started
    prev_result,        \* what the previous call returned
    words_returned      \* what a get_valid_words call made by the caller returned

vars == <<word_list, word_counter_map, pc, letters, max_solutions, timeout,
          valid_words, stack, all_solutions, fb_i, max_count, result,
          elapsed, timed_out, n_exact, fb_entered, calls, prev_result,
          words_returned>>

index_vars == <<word_list, word_counter_map>>
arg_vars == <<letters, max_solutions, timeout>>
hist_vars == <<calls, prev_result, words_returned>>

\* the orders a set can be iterated in
Orderings(S) ==
    {s \in [1..Cardinality(S) -> S] : \A i, j \in 1..Cardinality(S) : i # j => s[i] # s[j]}

\* QlessSolver.__init__
BuildCounterMap(order) == [i \in DOMAIN order |-> <<order[i], Counter(order[i])>>]

Dictionaries == {D \in SUBSET Words : Cardinality(D) <= MaxDictSize}

\* ---------------------------------------------------------- get_valid_words
\* the key test of line 60 alone: set membership, no multiplicity
FormableKeysOnly(word_counter, wkeys, letter_counter, lkeys) == wkeys \subseteq lkeys

\* word_counter.keys() <= letter_counter.keys() and the all(...) of line 64
Formable(word_counter, wkeys, letter_counter, lkeys) ==
    /\ wkeys \subseteq lkeys
    /\ \A c \in wkeys : letter_counter[c] >= word_counter[c]

MaxLen(s) == IF s = <<>> THEN 0
             ELSE CHOOSE n \in {Len(s[i]) : i \in DOMAIN s} :
                      \A m \in {Len(s[i]) : i \in DOMAIN s} : m <= n

\* list.sort(key=len, reverse=True): stable, longest first
RECURSIVE SortByLenDesc(_, _)
SortByLenDesc(s, n) ==
    IF n < 0 THEN <<>>
    ELSE SelectSeq(s, LAMBDA w : Len(w) = n) \o SortByLenDesc(s, n - 1)

get_valid_words(ls) ==
    LET entries == SelectSeq(word_counter_map,
                       LAMBDA e : Formable(e[2], Keys(e[1]), Counter(ls), Keys(ls)))
        found == [i \in DOMAIN entries |-> entries[i][1]]
    IN SortByLenDesc(found, MaxLen(found))

\* --------------------------------------------------- connectivity filter
Shares(w1, w2) == Keys(w1) \cap Keys(w2) # {}

\* connections: defaultdict(set) filled by the double loop of lines 248-254
Connections(solution) ==
    [w \in Range(solution) |->
        {v \in Range(solution) :
            \E i, j \in DOMAIN solution :
                /\ i < j
                /\ \/ (solution[i] = w /\ solution[j] = v)
                   \/ (solution[i] = v /\ solution[j] = w)
                /\ Shares(solution[i], solution[j])}]

RECURSIVE SetToSeq(_)
SetToSeq(S) ==
    IF S = {} THEN <<>>
    ELSE LET x == CHOOSE y \in S : TRUE IN <<x>> \o SetToSeq(S \ {x})

\* the BFS loop of lines 259-264
RECURSIVE BFS(_, _, _)
BFS(queue, visited, connections) ==
    IF queue = <<>> THEN visited
    ELSE LET word == Head(queue)
             seen == visited \cup {word}
             fresh == {c \in connections[word] : c \notin seen}
         IN BFS(Tail(queue) \o SetToSeq(fresh), seen, connections)

\* the BFS left out: every cover counts as connected
check_skipped(solution) == TRUE

check_solution_connectivity(solution) ==
    Cardinality(BFS(<<solution[1]>>, {}, Connections(solution))) = Len(solution)

\* line 205 with < for <=
TooShortStrict(solution) == Len(solution) < 1

\* line 205
TooShort(solution) == Len(solution) <= 1

\* the for loop of _filter_valid_solutions from position k, valid_solutions = acc
RECURSIVE FilterFrom(_, _, _, _)
FilterFrom(sols, k, acc, mc) ==
    IF k > Len(sols) THEN acc
    ELSE LET solution == sols[k] IN
         IF TooShort(solution) THEN FilterFrom(sols, k + 1, acc, mc)
         ELSE IF Len(solution) = 2 /\ Shares(solution[1], solution[2])
              THEN FilterFrom(sols, k + 1, Append(acc, solution), mc)
         ELSE IF check_solution_connectivity(solution)
              THEN IF Len(acc) + 1 >= mc THEN Append(acc, solution)
                   ELSE FilterFrom(sols, k + 1, Append(acc, solution), mc)
         ELSE FilterFrom(sols, k + 1, acc, mc)

\* the list of the previous call kept, as an attribute or a mutable default would be
KeptValidList == result

\* line 199: valid_solutions = []
NewValidList == <<>>

filter_valid_solutions(sols, mc) == FilterFrom(sols, 1, NewValidList, mc)

\* ---------------------------------------------------------------- Init
Init ==
    /\ word_list \in Dictionaries
    /\ word_counter_map \in {BuildCounterMap(o) : o \in Orderings(word_list)}
    /\ pc = "idle"
    /\ letters = <<>>
    /\ max_solutions = 0
    /\ timeout = 0
    /\ valid_words = <<>>
    /\ stack = <<>>
    /\ all_solutions = <<>>
    /\ fb_i = 0
    /\ max_count = 0
    /\ result = <<>>
    /\ elapsed = 0
    /\ timed_out = FALSE
    /\ n_exact = 0
    /\ fb_entered = FALSE
    /\ calls = 0
    /\ prev_result = <<>>
    /\ words_returned = <<>>

\* ------------------------------------------------- find_all_solutions
\* lines 54-57 keeping on self only the entries the letters can form
counter_map_pruned(ls) ==
    SelectSeq(word_counter_map,
              LAMBDA e : Formable(e[2], Keys(e[1]), Counter(ls), Keys(ls)))

\* self.word_counter_map after get_valid_words(ls): lines 54-69 read it and
\* build their results in locals, nothing is assigned to self
counter_map_after_lookup(ls) == word_counter_map

\* line 85 left out: the search is set up whatever valid_words holds
NeverShortCircuit(vw) == FALSE

\* line 85
NoValidWords(vw) == vw = <<>>

\* line 93: all_solutions = []
NewSolutionList == <<>>

\* lines 82-97 with the arguments (ls, ms, to)
Enter(ls, ms, to) ==
    /\ letters' = ls
    /\ max_solutions' = ms
    /\ timeout' = to
    /\ valid_words' = get_valid_words(ls)
    /\ all_solutions' = NewSolutionList
    /\ n_exact' = 0
    /\ fb_entered' = FALSE
    /\ timed_out' = FALSE
    /\ elapsed' = 0
    /\ fb_i' = 0
    /\ calls' = calls + 1
    /\ IF NoValidWords(valid_words')
       THEN /\ stack' = <<>>
            /\ result' = <<>>
            /\ pc' = "done"
       ELSE /\ stack' = <<[words |-> valid_words', remaining |-> ls,
                           solution |-> <<>>, skip_idx |-> 0]>>
            /\ result' = result
            /\ pc' = "loop"
    /\ word_list' = word_list
    /\ word_counter_map' = counter_map_after_lookup(ls)
    /\ words_returned' = <<>>
    /\ UNCHANGED max_count

\* the first query of a solver
Call ==
    /\ pc = "idle"
    /\ \E ls \in Rolls, ms \in 0..MaxSolutionsArg, to \in Timeouts :
          Enter(ls, ms, to)
    /\ UNCHANGED prev_result

\* the same query again on the same solver, after the previous one returned
\* without having read a time >= timeout
CallAgain ==
    /\ pc = "done"
    /\ calls >= 1
    /\ calls < MaxCalls
    /\ ~timed_out
    /\ prev_result' = result
    /\ Enter(letters, max_solutions, timeout)

\* line 99 without the clock test
LoopCondNoClock(stk, sols, ms, e, to) ==
    /\ stk # <<>>
    /\ Len(sols) < ms

\* the while condition of line 99, with the clock reading e
LoopCond(stk, sols, ms, e, to) ==
    /\ stk # <<>>
    /\ Len(sols) < ms
    /\ e < to

Top == stack[Len(stack)]
Rest == SubSeq(stack, 1, Len(stack) - 1)

\* lines 123-127 left out: only the length test of line 118 decides
CanUseLengthOnly(word, remaining) == TRUE

\* lines 123-127
CanUse(word, remaining) ==
    \A c \in Keys(word) : ~(Counter(remaining)[c] < Counter(word)[c])

\* line 138 left out: the used word stays in the child frame's word list
UseFrameKeepingWord(f, word) ==
    [words |-> f.words,
     remaining |-> Elements(Subtract(Counter(f.remaining), Counter(word)), KeyOrder(f.remaining)),
     solution |-> Append(f.solution, word),
     skip_idx |-> 0]

\* line 132 taking one occurrence of each letter of the word, however often
\* the word has it
UseFrameTakingOneEach(f, word) ==
    [words |-> SubSeq(f.words, 1, f.skip_idx) \o SubSeq(f.words, f.skip_idx + 2, Len(f.words)),
     remaining |-> Elements([c \in Letters |->
                               Counter(f.remaining)[c] - (IF c \in Keys(word) THEN 1 ELSE 0)],
                            KeyOrder(f.remaining)),
     solution |-> Append(f.solution, word),
     skip_idx |-> 0]

\* the frame of line 142
UseFrame(f, word) ==
    [words |-> SubSeq(f.words, 1, f.skip_idx) \o SubSeq(f.words, f.skip_idx + 2, Len(f.words)),
     remaining |-> Elements(Subtract(Counter(f.remaining), Counter(word)), KeyOrder(f.remaining)),
     solution |-> Append(f.solution, word),
     skip_idx |-> 0]

\* the frame of line 115
\* line 115 without the + 1: the cursor stays on the same word
SkipFrameStaying(f) == f

\* line 115 stepping over two words
SkipFrameOverTwo(f) == [f EXCEPT !.skip_idx = f.skip_idx + 2]

SkipFrame(f) == [f EXCEPT !.skip_idx = f.skip_idx + 1]

\* line 99 false: the loop is left
SearchExit ==
    /\ pc = "loop"
    /\ \E e \in ClockValues :
          /\ ~LoopCond(stack, all_solutions, max_solutions, e, timeout)
          /\ elapsed' = e
          /\ timed_out' = (timed_out \/ e >= timeout)
    /\ pc' = "after_loop"
    /\ UNCHANGED <<index_vars, arg_vars, hist_vars, valid_words, stack, all_solutions,
                   fb_i, max_count, result, n_exact, fb_entered>>

\* lines 99-105: a frame with no letters left is a raw cover
RecordCover ==
    /\ pc = "loop"
    /\ \E e \in ClockValues :
          /\ LoopCond(stack, all_solutions, max_solutions, e, timeout)
          /\ elapsed' = e
    /\ Top.remaining = <<>>
    /\ all_solutions' = Append(all_solutions, Top.solution)
    /\ n_exact' = n_exact + 1
    /\ stack' = Rest
    /\ UNCHANGED <<index_vars, arg_vars, hist_vars, valid_words, pc, fb_i,
                   max_count, result, timed_out, fb_entered>>

\* lines 99-109: letters left and no word left to try
DeadBranch ==
    /\ pc = "loop"
    /\ \E e \in ClockValues :
          /\ LoopCond(stack, all_solutions, max_solutions, e, timeout)
          /\ elapsed' = e
    /\ Top.remaining # <<>>
    /\ (Top.words = <<>> \/ Top.skip_idx >= Len(Top.words))
    /\ stack' = Rest
    /\ UNCHANGED <<index_vars, arg_vars, hist_vars, valid_words, pc, all_solutions,
                   fb_i, max_count, result, timed_out, n_exact, fb_entered>>

\* lines 99-142: push the skip frame and, if the word fits, the use frame
Branch ==
    /\ pc = "loop"
    /\ \E e \in ClockValues :
          /\ LoopCond(stack, all_solutions, max_solutions, e, timeout)
          /\ elapsed' = e
    /\ Top.remaining # <<>>
    /\ ~(Top.words = <<>> \/ Top.skip_idx >= Len(Top.words))
    /\ LET word == Top.words[Top.skip_idx + 1]
           skipped == Append(Rest, SkipFrame(Top))
       IN stack' = IF Len(word) <= Len(Top.remaining) /\ CanUse(word, Top.remaining)
                   THEN Append(skipped, UseFrame(Top, word))
                   ELSE skipped
    /\ UNCHANGED <<index_vars, arg_vars, hist_vars, valid_words, pc, all_solutions,
                   fb_i, max_count, result, timed_out, n_exact, fb_entered>>

\* line 145 without the clock test
FallbackCondNoClock(sols, e, to) == sols = <<>>

\* line 145 testing the connected covers instead of the raw covers
FallbackCondOnFiltered(sols, e, to) ==
    filter_valid_solutions(sols, FilterMaxCount) = <<>> /\ e < to

\* line 145, with the clock reading e
FallbackCond(sols, e, to) == sols = <<>> /\ e < to

\* line 145: the fallback block is entered, or skipped
FallbackTest ==
    /\ pc = "after_loop"
    /\ \E e \in ClockValues :
          /\ elapsed' = e
          /\ timed_out' = (timed_out \/ e >= timeout)
          /\ IF FallbackCond(all_solutions, e, timeout)
             THEN /\ pc' = "fb_outer"
                  /\ fb_entered' = TRUE
                  /\ fb_i' = 1
             ELSE /\ pc' = "filter"
                  /\ UNCHANGED <<fb_entered, fb_i>>
    /\ UNCHANGED <<index_vars, arg_vars, hist_vars, valid_words, stack, all_solutions,
                   max_count, result, n_exact>>

\* line 151: ''.join((Counter(letters) - word1_counter).elements())
RemainingLetters(ls, word1) ==
    Elements(Subtract(Counter(ls), Counter(word1)), KeyOrder(ls))

\* line 155: len(word1) >= len(letters) * 0.75
LongEnough(word1, ls) == 4 * Len(word1) >= 3 * Len(ls)

\* lines 153-155
SingleCond(word1, ls) == RemainingLetters(ls, word1) = <<>> /\ LongEnough(word1, ls)

\* lines 171-173: word2 fits into word1's letters plus the letters word1 left
Word2Fits(word1, word2, ls) ==
    LET combined_counter == CounterAdd(Counter(word1), Counter(RemainingLetters(ls, word1)))
    IN \A c \in Keys(word2) : combined_counter[c] >= Counter(word2)[c]

\* lines 175-176 left out: any sharing pair is taken
CoversMostAlways(word1, word2, ls) == TRUE

\* lines 175-176: sum((word1_counter | word2_counter).values()) >= len(letters) * 0.9
\* (the float product is compared as 10 * used >= 9 * len; the two agree for
\* every length a roll can have here)
CoversMost(word1, word2, ls) ==
    10 * Total(CounterUnion(Counter(word1), Counter(word2))) >= 9 * Len(ls)

\* lines 161-176: the pair (word1, word2) is appended
PairCond(word1, word2, ls) ==
    /\ word2 # word1
    /\ Shares(word1, word2)
    /\ Word2Fits(word1, word2, ls)
    /\ CoversMost(word1, word2, ls)

fb_unchanged == <<index_vars, arg_vars, hist_vars, valid_words, stack, max_count,
                  result, elapsed, timed_out, n_exact, fb_entered>>

\* line 147: the for loop over word1 is exhausted
FallbackOuterDone ==
    /\ pc = "fb_outer"
    /\ fb_i > Len(valid_words)
    /\ pc' = "filter"
    /\ UNCHANGED <<fb_unchanged, all_solutions, fb_i>>

\* lines 147-157: word1 uses all letters; it is appended and the loop continues
FallbackSingle ==
    /\ pc = "fb_outer"
    /\ fb_i <= Len(valid_words)
    /\ SingleCond(valid_words[fb_i], letters)
    /\ all_solutions' = Append(all_solutions, <<valid_words[fb_i]>>)
    /\ fb_i' = fb_i + 1
    /\ UNCHANGED <<fb_unchanged, pc>>

\* lines 160-179: the for loop over word2 from position j; an appended pair
\* that fills the list breaks the loop
RECURSIVE InnerLoop(_, _, _, _, _)
InnerLoop(word1, j, sols, ls, ms) ==
    IF j > Len(valid_words) THEN sols
    ELSE IF PairCond(word1, valid_words[j], ls)
         THEN IF Len(sols) + 1 >= ms
              THEN Append(sols, <<word1, valid_words[j]>>)
              ELSE InnerLoop(word1, j + 1, Append(sols, <<word1, valid_words[j]>>), ls, ms)
         ELSE InnerLoop(word1, j + 1, sols, ls, ms)

\* lines 147-182: word1 is not taken alone; every word2 is tried, and the
\* test of line 181 ends the outer loop or goes on to the next word1
FallbackPairs ==
    /\ pc = "fb_outer"
    /\ fb_i <= Len(valid_words)
    /\ ~SingleCond(valid_words[fb_i], letters)
    /\ all_solutions' = InnerLoop(valid_words[fb_i], 1, all_solutions, letters, max_solutions)
    /\ IF Len(all_solutions') >= max_solutions
       THEN pc' = "filter" /\ fb_i' = fb_i
       ELSE pc' = pc /\ fb_i' = fb_i + 1
    /\ UNCHANGED <<fb_unchanged>>

\* lines 185-187
FilterAndReturn ==
    /\ pc = "filter"
    /\ max_count' = FilterMaxCount
    /\ result' = filter_valid_solutions(all_solutions, FilterMaxCount)
    /\ pc' = "done"
    /\ UNCHANGED <<index_vars, arg_vars, hist_vars, valid_words, stack, all_solutions,
                   fb_i, elapsed, timed_out, n_exact, fb_entered>>

Next ==
    \/ Call
    \/ SearchExit
    \/ RecordCover
    \/ DeadBranch
    \/ Branch
    \/ FallbackTest
    \/ FallbackOuterDone
    \/ FallbackSingle
    \/ FallbackPairs
    \/ FilterAndReturn

\* one query on a freshly built solver
Spec == Init /\ [][Next]_vars

\* the call and the iterations of the loop of line 99
SearchStep == Call \/ SearchExit \/ RecordCover \/ DeadBranch \/ Branch

\* the statements after the loop: lines 145-187
FinishStep ==
    FallbackTest \/ FallbackOuterDone \/ FallbackSingle \/ FallbackPairs \/ FilterAndReturn

\* the positions at which a statement after the loop is the next to run
Finishing == pc \in {"after_loop", "fb_outer", "filter"}

\* One query that is run to its end: the interpreter executes the next
\* statement as long as there is one. The second fairness condition is
\* WF_vars(FinishStep) with ENABLED <<FinishStep>>_vars written as Finishing.
SpecLive ==
    /\ Init
    /\ [][Next]_vars
    /\ WF_vars(SearchStep)
    /\ ([]<>(~Finishing) \/ []<><<FinishStep>>_vars)

\* get_valid_words called by the caller: with any letters before the first
\* query, with the query's letters after a query has returned
GetValidWordsCall ==
    /\ pc \in {"idle", "done"}
    /\ \E ls \in IF pc = "idle" THEN Rolls ELSE {letters} :
          /\ words_returned' = get_valid_words(ls)
          /\ word_counter_map' = counter_map_after_lookup(ls)
    /\ UNCHANGED <<word_list, arg_vars, calls, prev_result, pc, valid_words, stack,
                   all_solutions, fb_i, max_count, result, elapsed, timed_out,
                   n_exact, fb_entered>>

\* the query, then the same query again, get_valid_words calls in between
NextRepeat == Next \/ CallAgain \/ GetValidWordsCall

SpecRepeat == Init /\ [][NextRepeat]_vars

\* ------------------------------------- _filter_valid_solutions called directly
FilterWords == {<<"a">>, <<"b">>, <<"a", "b">>}

Covers == SeqsUpTo(FilterWords, MaxCoverLen)

InitFilter ==
    /\ word_list = {}
    /\ word_counter_map = <<>>
    /\ pc = "filter_call"
    /\ letters = <<>>
    /\ max_solutions = 0
    /\ timeout = 0
    /\ valid_words = <<>>
    /\ stack = <<>>
    /\ all_solutions \in SeqsUpTo(Covers, MaxCovers)
    /\ fb_i = 0
    /\ max_count \in 1..MaxCountArg
    /\ result = <<>>
    /\ elapsed = 0
    /\ timed_out = FALSE
    /\ n_exact = 0
    /\ fb_entered = FALSE
    /\ calls = 0
    /\ prev_result = <<>>
    /\ words_returned = <<>>

\* lines 189-231 on the arguments (all_solutions, max_count)
FilterCall ==
    /\ pc = "filter_call"
    /\ result' = filter_valid_solutions(all_solutions, max_count)
    /\ pc' = "done"
    /\ UNCHANGED <<index_vars, arg_vars, hist_vars, valid_words, stack, all_solutions,
                   fb_i, max_count, elapsed, timed_out, n_exact, fb_entered>>

NextFilter == FilterCall

SpecFilter == InitFilter /\ [][NextFilter]_vars

\* ------------------------------------------------------------ properties
RECURSIVE Flatten(_)
Flatten(S) == IF S = <<>> THEN <<>> ELSE Head(S) \o Flatten(Tail(S))

\* the letters of the words of S, taken together, are the letters of ls
SumsTo(S, ls) == \A c \in Letters : Count(c, Flatten(S)) = Count(c, ls)

\* the shares-a-letter graph on the words of S has one component: no split
\* of the words into two non-empty parts is without an edge across
Connected(S) ==
    \A P \in SUBSET Range(S) :
        (P # {} /\ P # Range(S)) =>
            \E u \in P, v \in Range(S) \ P : Keys(u) \cap Keys(v) # {}

\* w needs no letter more often than ls supplies it
Fits(w, ls) == \A c \in Letters : Count(c, w) <= Count(c, ls)

Returned == pc = "done"

\* C1 as stated: every returned solution, from the stack search or from the
\* pair fallback, uses exactly the letters of the roll.
AllReturnedUseRollExactly ==
    Returned => \A k \in DOMAIN result : SumsTo(result[k], letters)

\* C1 amended: every solution returned by a call that did not enter the
\* fallback (so every solution the stack search produced) uses exactly the
\* letters of the roll.
ExactReturnedUseRollExactly ==
    (Returned /\ ~fb_entered) => \A k \in DOMAIN result : SumsTo(result[k], letters)

ExactSolutionReturned == Returned /\ ~fb_entered /\ n_exact > 0 /\ result # <<>>

NoShortSolutionReturned ==
    Returned => \A k \in DOMAIN result : Len(result[k]) >= 2

OneWordCoverRecordedAndDropped ==
    /\ Returned
    /\ n_exact > 0
    /\ \E k \in DOMAIN all_solutions : Len(all_solutions[k]) = 1

\* C4: get_valid_words returns each indexed word that fits the letters exactly
\* once, and nothing else.
ValidWordsAreExactlyTheFitting ==
    pc \in {"loop", "after_loop", "fb_outer", "filter", "done"} =>
        /\ Range(valid_words) = {w \in word_list : Fits(w, letters)}
        /\ \A i, j \in DOMAIN valid_words : i # j => valid_words[i] # valid_words[j]

WordRejectedForMultiplicity ==
    /\ pc = "loop"
    /\ valid_words # <<>>
    /\ \E w \in word_list : Keys(w) \subseteq Keys(letters) /\ w \notin Range(valid_words)

\* C5: for a positive max_solutions, all_solutions never holds more than
\* max_solutions covers, in the stack search and in the fallback.
CollectedWithinMaxSolutions ==
    (pc \in {"loop", "after_loop", "fb_outer", "filter", "done"} /\ max_solutions > 0)
        => Len(all_solutions) <= max_solutions

\* C6: _filter_valid_solutions(all_solutions, max_count) returns at most
\* max_count solutions.
FilterReturnsAtMostMaxCount ==
    Returned => Len(result) <= max_count

\* C7: when no indexed word fits the roll, the call has returned the empty
\* list without a frame pushed, a cover recorded or the fallback entered.
NoCandidateReturnsEmpty ==
    (pc # "idle" /\ \A w \in word_list : ~Fits(w, letters)) =>
        /\ pc = "done"
        /\ result = <<>>
        /\ stack = <<>>
        /\ all_solutions = <<>>
        /\ n_exact = 0
        /\ ~fb_entered

NoCandidateInNonEmptyDictionary ==
    /\ pc = "done"
    /\ word_list # {}
    /\ \A w \in word_list : ~Fits(w, letters)

\* a loop test reading a time >= timeout, or finding max_solutions covers
\* collected, goes to the code after the loop and touches nothing
BudgetTestLeavesLoop ==
    (pc = "loop" /\ (elapsed' >= timeout \/ Len(all_solutions) >= max_solutions))
        => (pc' = "after_loop" /\ stack' = stack /\ all_solutions' = all_solutions)

\* after the loop no frame is popped or pushed and the covers the stack
\* search recorded stay as they are
SearchFrozenAfterLoop ==
    (pc \in {"after_loop", "fb_outer", "filter"})
        => /\ stack' = stack
           /\ n_exact' = n_exact
           /\ SubSeq(all_solutions', 1, n_exact) = SubSeq(all_solutions, 1, n_exact)

\* the covers of the stack search are all the filter received
RecordedCoversArePassedOn ==
    (Returned /\ n_exact > 0) =>
        /\ Len(all_solutions) = n_exact
        /\ \A k \in DOMAIN result : result[k] \in Range(all_solutions)

\* C8: a loop test that reads a time >= timeout, or finds max_solutions covers
\* collected, leaves the loop with stack and covers untouched; after the loop
\* the stack search pops no frame and records no cover; the covers it had
\* recorded are the ones the filter receives and the result draws on.
BudgetStopsTheSearch ==
    /\ [][BudgetTestLeavesLoop]_vars
    /\ [][SearchFrozenAfterLoop]_vars
    /\ []RecordedCoversArePassedOn

PartialCoversReturnedAfterTimeout ==
    /\ Returned
    /\ timed_out
    /\ stack # <<>>
    /\ n_exact > 0
    /\ n_exact < max_solutions
    /\ result # <<>>

\* C9: the same query repeated on the same solver, neither call reading a
\* time >= timeout, returns the same list in the same order.
RepeatedCallReturnsSame ==
    (Returned /\ calls >= 2 /\ ~timed_out) => result = prev_result

RepeatedCallReturnedSolutions ==
    Returned /\ calls >= 2 /\ ~timed_out /\ result # <<>>

\* the step that enters the fallback starts from no raw cover and reads a
\* time < timeout
FallbackEntryIsClean ==
    (~fb_entered /\ fb_entered')
        => (all_solutions = <<>> /\ n_exact = 0 /\ elapsed' < timeout)

\* C10: the fallback is entered only with no raw cover recorded and a time
\* reading < timeout; a call whose stack search recorded a cover never enters
\* it, so the raw covers are all from the stack search or all from the fallback.
FallbackOnlyWithoutRawCovers ==
    /\ [][FallbackEntryIsClean]_vars
    /\ [](fb_entered => n_exact = 0)
    /\ [](n_exact > 0 => Len(all_solutions) = n_exact)

AllRawCoversRejectedNoFallback ==
    /\ Returned
    /\ n_exact > 0
    /\ result = <<>>
    /\ ~fb_entered
    /\ ~timed_out

\* no word twice in S
Distinct(S) == \A i, j \in DOMAIN S : i # j => S[i] # S[j]

\* C11: in every frame the partial sequence has pairwise distinct words and
\* shares no word with the frame's word list; no raw cover and no returned
\* solution holds a word twice.
NoWordUsedTwice ==
    /\ \A k \in DOMAIN stack :
          /\ Distinct(stack[k].solution)
          /\ Range(stack[k].solution) \cap Range(stack[k].words) = {}
    /\ \A k \in DOMAIN all_solutions : Distinct(all_solutions[k])
    /\ \A k \in DOMAIN result : Distinct(result[k])

\* a frame whose used word could be spelled once more from the letters left
UsedWordStillSpellable ==
    /\ pc = "loop"
    /\ \E k \in DOMAIN stack :
          /\ stack[k].solution # <<>>
          /\ Fits(stack[k].solution[1], stack[k].remaining)

\* the letters left in frame f and the letters of its words are the roll's
FrameBalanced(f) ==
    \A c \in Letters : Count(c, f.remaining) + Count(c, Flatten(f.solution)) = Count(c, letters)

\* a step that pushes a use frame takes a word whose every letter demand is
\* met by the popped frame's remaining letters, and leaves no negative count
UsePushedOnlyWhenWordFits ==
    (pc = "loop" /\ Len(stack') = Len(stack) + 1) =>
        /\ Fits(stack'[Len(stack')].solution[Len(stack'[Len(stack')].solution)], Top.remaining)
        /\ \A c \in Letters :
              Count(c, Top.remaining)
                - Count(c, stack'[Len(stack')].solution[Len(stack'[Len(stack')].solution)]) >= 0

\* C12: every frame on the stack is balanced (remaining letters plus the
\* letters of the partial sequence are the roll), a use frame is pushed only
\* for a word that fits the remaining letters, and every raw cover the stack
\* search recorded sums exactly to the roll.
FramesStayBalanced ==
    /\ [](\A k \in DOMAIN stack : FrameBalanced(stack[k]))
    /\ [][UsePushedOnlyWhenWordFits]_vars
    /\ [](\A k \in 1..n_exact : SumsTo(all_solutions[k], letters))

UseFrameOnStackAndCoverRecorded ==
    /\ pc = "loop"
    /\ n_exact > 0
    /\ \E k \in DOMAIN stack : stack[k].solution # <<>> /\ stack[k].remaining # <<>>

\* the sequences of pairwise distinct candidate words that sum to the roll
ExactCovers ==
    {S \in SeqsUpTo(Range(valid_words), Len(valid_words)) :
        S # <<>> /\ Distinct(S) /\ SumsTo(S, letters)}

\* the raw covers the stack search recorded
RawCovers == SubSeq(all_solutions, 1, n_exact)

\* the loop of line 99 was entered and has ended with an empty stack
SearchExhausted ==
    /\ pc \in {"after_loop", "fb_outer", "filter", "done"}
    /\ valid_words # <<>>
    /\ stack = <<>>

SearchStepShrinks ==
    (pc = "loop" /\ pc' = "loop") =>
        /\ Len(stack') \in {Len(stack) - 1, Len(stack), Len(stack) + 1}
        /\ SubSeq(stack', 1, Len(stack) - 1) = Rest
        /\ Len(stack') >= Len(stack) =>
              /\ stack'[Len(stack)].words = Top.words
              /\ stack'[Len(stack)].skip_idx > Top.skip_idx
        /\ Len(stack') = Len(stack) + 1 =>
              Len(stack'[Len(stack')].words) < Len(Top.words)

\* C14: every call returns, whatever the clock reads and whether or not
\* max_solutions is reached: each loop step replaces the popped frame by
\* frames of smaller rank, so the stack empties, and the fallback's loops end.
QueryTerminates ==
    /\ <>(pc = "done")
    /\ [][SearchStepShrinks]_vars

ReturnedWithoutBudgetEnding ==
    /\ Returned
    /\ SearchExhausted
    /\ ~timed_out
    /\ Len(all_solutions) < max_solutions
    /\ fb_entered

\* what a step must leave alone: the solver's index; while a query runs, its
\* candidate list, the covers already recorded and the frames below the one
\* popped; and the word list and partial sequence the popped frame hands on
SolverAndPushedFramesKept ==
    /\ word_list' = word_list
    /\ word_counter_map' = word_counter_map
    /\ pc \notin {"idle", "done"} =>
          /\ valid_words' = valid_words
          /\ SubSeq(all_solutions', 1, Len(all_solutions)) = all_solutions
    /\ (pc = "loop" /\ stack # <<>>) =>
          /\ SubSeq(stack', 1, Len(stack) - 1) = Rest
          /\ Len(stack') >= Len(stack) =>
                /\ stack'[Len(stack)].words = Top.words
                /\ stack'[Len(stack)].solution = Top.solution
    /\ calls' # calls =>
          /\ all_solutions' = <<>>
          /\ Len(stack') <= 1

\* C15: no call changes word_list or word_counter_map, whatever sequence of
\* get_valid_words and find_all_solutions calls is made; a query starts from
\* lists of its own and never changes a frame, a word list or a partial
\* sequence once it is on the stack or recorded.
QueriesLeaveSolverUnchanged == [][SolverAndPushedFramesKept]_vars

SecondQueryAndLookupReturned ==
    /\ Returned
    /\ calls >= 2
    /\ result # <<>>
    /\ words_returned # <<>>

\* the entries a step appends to all_solutions
NewEntries == SubSeq(all_solutions', Len(all_solutions) + 1, Len(all_solutions'))

PairsOf(S) == SelectSeq(S, LAMBDA e : Len(e) = 2)

\* the first n entries of S, all of S when it has fewer, none when n <= 0
Take(S, n) == SubSeq(S, 1, IF n <= 0 THEN 0 ELSE IF n < Len(S) THEN n ELSE Len(S))

\* the sum over the letters of max(count in w1, count in w2), counted as the
\* occurrences (c, k) that w1 or w2 has
UnionSize(w1, w2) ==
    Cardinality({ck \in Letters \X (1..(Len(w1) + Len(w2))) :
                    ck[2] <= Count(ck[1], w1) \/ ck[2] <= Count(ck[1], w2)})

\* the three conditions of the claim on an ordered pair of candidates
ClaimedPair(w1, w2) ==
    /\ w1 # w2
    /\ Range(w1) \cap Range(w2) # {}
    /\ 10 * UnionSize(w1, w2) >= 9 * Len(letters)

\* the pairs (w1, word2) that meet them, in candidate order
ClaimedPairsOf(w1) ==
    LET seconds == SelectSeq(valid_words, LAMBDA w2 : ClaimedPair(w1, w2))
    IN [k \in DOMAIN seconds |-> <<w1, seconds[k]>>]

\* w by itself uses every letter of the roll
UsesAllLetters(w) == \A c \in Letters : Count(c, w) >= Count(c, letters)

\* the fallback is about to handle the word1 at position fb_i
AtWordOne == pc = "fb_outer" /\ fb_i <= Len(valid_words)

\* C16 as stated: for the word1 being handled, the pairs appended are the
\* pairs that meet the three conditions, as long as fewer than max_solutions
\* results have been collected (max_solutions >= 1).
PairsAppendedAsClaimed ==
    (AtWordOne /\ max_solutions >= 1) =>
        PairsOf(NewEntries) =
            Take(ClaimedPairsOf(valid_words[fb_i]), max_solutions - Len(all_solutions))

WordOneHandled ==
    AtWordOne =>
        /\ SubSeq(all_solutions', 1, Len(all_solutions)) = all_solutions
        /\ IF UsesAllLetters(valid_words[fb_i])
           THEN /\ NewEntries = << <<valid_words[fb_i]>> >>
                /\ pc' = "fb_outer"
                /\ fb_i' = fb_i + 1
           ELSE /\ NewEntries =
                      Take(ClaimedPairsOf(valid_words[fb_i]),
                           IF max_solutions - Len(all_solutions) > 1
                           THEN max_solutions - Len(all_solutions) ELSE 1)
                /\ (pc' = "filter") <=> (Len(all_solutions') >= max_solutions)
                /\ pc' # "filter" => (pc' = "fb_outer" /\ fb_i' = fb_i + 1)

ClockWentBack == timed_out /\ elapsed < timeout

\* C17: with max_solutions >= 1 and a clock that did not go back, the fallback
\* is entered only with the stack emptied by the search and no sequence of
\* distinct candidate words summing to the roll, so whatever it returns is for
\* a roll without exact cover, and it appends pairs only, never a single word.
FallbackOnlyAfterExhaustedSearch ==
    (fb_entered /\ max_solutions >= 1 /\ ~ClockWentBack) =>
        /\ stack = <<>>
        /\ n_exact = 0
        /\ ExactCovers = {}
        /\ \A k \in DOMAIN all_solutions : Len(all_solutions[k]) = 2
        /\ \A k \in DOMAIN valid_words : ~UsesAllLetters(valid_words[k])

ApproximateReturnedAfterExhaustion ==
    /\ Returned
    /\ fb_entered
    /\ max_solutions >= 1
    /\ ~ClockWentBack
    /\ SearchExhausted
    /\ result # <<>>

====
